---- MODULE Spec2Model ----
(***************************************************************************)
(* Finite frame theory walkthrough (Intro.ipynb).                          *)
(*                                                                         *)
(* The notebook is a straight-line program: its code cells run top to      *)
(* bottom over one shared namespace.  Each code cell is one action, each   *)
(* Python name one variable.  Floating point numbers are modelled by exact *)
(* rationals: a matrix of rationals is [num |-> integer matrix, den |->    *)
(* positive integer].  Real numbers that are roots of a characteristic     *)
(* polynomial (eigenvalues) are kept as that polynomial; they are compared *)
(* with rationals exactly, by the signs of the shifted polynomial.         *)
(***************************************************************************)
EXTENDS Integers, Sequences, FiniteSets, TLC

(***************************************************************************)
(* Bounds of the model                                                     *)
(***************************************************************************)
\* entries of a sampled frame vector lie in -1..MaxVal
MaxVal == 1
\* rationals a/b with |a| <= GridMax, 1 <= b <= GridMax are compared with eigenvalues
GridMax == 4

(***************************************************************************)
(* Integer helpers                                                         *)
(***************************************************************************)
Abs(x) == IF x < 0 THEN -x ELSE x

\* the sequence s written out (a function over 1..k as a tuple of values)
Tup(s) == s \o << >>

Sgn(x) == IF x < 0 THEN -1 ELSE IF x = 0 THEN 0 ELSE 1

RECURSIVE Gcd(_, _)
Gcd(a, b) == IF b = 0 THEN Abs(a) ELSE Gcd(b, a % Abs(b))

RECURSIVE Pow(_, _)
Pow(x, k) == IF k = 0 THEN 1 ELSE x * Pow(x, k - 1)

RECURSIVE SumTo(_, _)
SumTo(s, k) == IF k = 0 THEN 0 ELSE s[k] + SumTo(s, k - 1)

SumSeq(s) == SumTo(s, Len(s))

RECURSIVE GcdTo(_, _)
GcdTo(s, k) == IF k = 0 THEN 0 ELSE Gcd(s[k], GcdTo(s, k - 1))

GcdSeq(s) == GcdTo(s, Len(s))

RECURSIVE Binom(_, _)
Binom(k, j) == IF j = 0 \/ j = k THEN 1 ELSE Binom(k - 1, j - 1) + Binom(k - 1, j)

RECURSIVE SortedSeq(_)
SortedSeq(X) ==
    IF X = {} THEN << >>
    ELSE LET lo == CHOOSE x \in X : \A y \in X : x <= y
         IN <<lo>> \o SortedSeq(X \ {lo})

(***************************************************************************)
(* Vectors and integer matrices (a matrix is the sequence of its rows)     *)
(***************************************************************************)
Vectors(k, V) == [1..k -> V]

Matrices(r, c, V) == [1..r -> [1..c -> V]]

NumRows(M) == Len(M)

NumCols(M) == IF Len(M) = 0 THEN 0 ELSE Len(M[1])

Dot(u, v) == SumSeq(Tup([k \in 1..Len(u) |-> u[k] * v[k]]))

Column(M, j) == Tup([i \in 1..Len(M) |-> M[i][j]])

ZeroMatrix(r, c) == Tup([i \in 1..r |-> Tup([j \in 1..c |-> 0])])

Identity(k) == Tup([i \in 1..k |-> Tup([j \in 1..k |-> IF i = j THEN 1 ELSE 0])])

Scale(a, M) == Tup([i \in 1..Len(M) |-> Tup([j \in 1..Len(M[i]) |-> a * M[i][j]])])

MatAdd(X, Y) == Tup([i \in 1..Len(X) |-> Tup([j \in 1..Len(X[i]) |-> X[i][j] + Y[i][j]])])

\* M.T
Transpose(M) == Tup([j \in 1..NumCols(M) |-> Tup([i \in 1..Len(M) |-> M[i][j]])])

\* X @ Y
MatMul(X, Y) ==
    LET Yt == Transpose(Y)
    IN Tup([i \in 1..Len(X) |-> Tup([j \in 1..Len(Yt) |-> Dot(X[i], Yt[j])])])

\* M @ v for a vector v
MatVec(M, v) == Tup([i \in 1..Len(M) |-> Dot(M[i], v)])

\* M[rows, :][:, cols] for sequences of 1-based indices
Sub(M, rows, cols) ==
    Tup([i \in 1..Len(rows) |-> Tup([j \in 1..Len(cols) |-> M[rows[i]][cols[j]]])])

Without(k, i) == Tup([j \in 1..(k - 1) |-> IF j < i THEN j ELSE j + 1])

UpTo(k) == Tup([j \in 1..k |-> j])

Minor(M, i, j) == Sub(M, Without(Len(M), i), Without(Len(M), j))

\* numpy.linalg.det, by expansion along the first row
RECURSIVE Det(_)
Det(M) ==
    IF Len(M) = 0 THEN 1
    ELSE IF Len(M) = 1 THEN M[1][1]
    ELSE IF Len(M) = 2 THEN M[1][1] * M[2][2] - M[1][2] * M[2][1]
    ELSE SumSeq(Tup([j \in 1..Len(M) |->
                   (IF j % 2 = 1 THEN 1 ELSE -1) * M[1][j] * Det(Minor(M, 1, j))]))

\* mutant of Adj: the cofactor signs are dropped
Adj_Unsigned(M) == Tup([i \in 1..Len(M) |-> Tup([j \in 1..Len(M) |-> Det(Minor(M, j, i))])])

\* adjugate: Adj(M) @ M = Det(M) * Identity
Adj(M) ==
    Tup([i \in 1..Len(M) |-> Tup([j \in 1..Len(M) |->
        (IF (i + j) % 2 = 0 THEN 1 ELSE -1) * Det(Minor(M, j, i))])])

\* numpy.linalg.matrix_rank: the largest order of a nonvanishing Gram minor
GramDet(M, rows) ==
    LET R == Sub(M, rows, UpTo(NumCols(M)))
    IN Det(MatMul(R, Transpose(R)))

matrix_rank(M) ==
    LET sizes == {k \in 0..Len(M) :
                    \E R \in SUBSET (1..Len(M)) :
                        Cardinality(R) = k /\ GramDet(M, SortedSeq(R)) # 0}
    IN CHOOSE k \in sizes : \A l \in sizes : l <= k

(***************************************************************************)
(* Matrices of rationals                                                   *)
(***************************************************************************)
RECURSIVE Flatten(_)
Flatten(M) == IF Len(M) = 0 THEN << >> ELSE Head(M) \o Flatten(Tail(M))

\* lowest terms, positive denominator
Rat(N, d) ==
    LET g == Gcd(GcdSeq(Flatten(N)), d)
        s == IF d < 0 THEN -1 ELSE 1
    IN [num |-> Tup([i \in 1..Len(N) |-> Tup([j \in 1..Len(N[i]) |-> s * (N[i][j] \div g)])]),
        den |-> s * (d \div g)]

IntMat(N) == [num |-> N, den |-> 1]

RatT(X) == [num |-> Transpose(X.num), den |-> X.den]

\* X @ Y
RatMul(X, Y) == Rat(MatMul(X.num, Y.num), X.den * Y.den)

RatAdd(X, Y) == Rat(MatAdd(Scale(Y.den, X.num), Scale(X.den, Y.num)), X.den * Y.den)

RatEq(X, Y) == Scale(Y.den, X.num) = Scale(X.den, Y.num)

Singular(M) == Det(M) = 0

\* mutant of inv: the adjugate is not divided by the determinant
inv_NoDeterminant(M) == Rat(Adj(M), 1)

\* numpy.linalg.inv of a nonsingular integer matrix
inv(M) == Rat(Adj(M), Det(M))

(***************************************************************************)
(* Eigenvalues.  eigvals(X) of a symmetric rational matrix X = N/d is kept *)
(* as the characteristic polynomial of N (coefficients c_0..c_n of         *)
(* x^0..x^n, c_n = 1) together with d: the eigenvalues are the roots of    *)
(* the polynomial divided by d.  All roots are real because X is symmetric.*)
(***************************************************************************)
BitSet(code, k) == {i \in 1..k : (code \div Pow(2, i - 1)) % 2 = 1}

\* the sum of the principal minors of order j
PrincipalMinorSum(N, j) ==
    SumSeq(Tup([code \in 1..Pow(2, Len(N)) |->
              LET J == BitSet(code - 1, Len(N))
              IN IF Cardinality(J) = j
                 THEN Det(Sub(N, SortedSeq(J), SortedSeq(J)))
                 ELSE 0]))

CharPoly(N) ==
    Tup([k \in 1..(Len(N) + 1) |->
        (IF (Len(N) - (k - 1)) % 2 = 0 THEN 1 ELSE -1)
            * PrincipalMinorSum(N, Len(N) - (k - 1))])

\* numpy.linalg.eigvals
eigvals(X) == [poly |-> CharPoly(X.num), den |-> X.den]

Degree(p) == Len(p) - 1

\* the multiplicity of the root 0
RECURSIVE ZeroRoots(_)
ZeroRoots(p) == IF Len(p) <= 1 \/ Head(p) # 0 THEN 0 ELSE 1 + ZeroRoots(Tail(p))

RECURSIVE StripZeroRoots(_)
StripZeroRoots(p) == IF Len(p) <= 1 \/ Head(p) # 0 THEN p ELSE StripZeroRoots(Tail(p))

\* mutant of NonZero: the filter keeps every eigenvalue
NonZero_KeepAll(ev) == ev

\* [l for l in lam if abs(l) > 1e-10]: the eigenvalues that are not zero
NonZero(ev) == [poly |-> StripZeroRoots(ev.poly), den |-> ev.den]

\* coefficients of the polynomial whose roots are b*den*(lambda - a/b), lambda an eigenvalue
Shifted(ev, a, b) ==
    LET p == ev.poly
        dg == Degree(p)
    IN Tup([j \in 1..Len(p) |->
          SumSeq(Tup([k \in 1..Len(p) |->
                    IF k < j THEN 0
                    ELSE p[k] * Binom(k - 1, j - 1) * Pow(a * ev.den, k - j) * Pow(b, dg - (k - 1))]))])

\* sign of (smallest eigenvalue - a/b), b > 0
CmpMin(ev, a, b) ==
    LET q == Shifted(ev, a, b)
        z == ZeroRoots(q)
        alt == \A j \in (z + 1)..Len(q) : Sgn(q[j]) = (IF (Len(q) - j) % 2 = 0 THEN 1 ELSE -1)
    IN IF alt /\ z = 0 THEN 1 ELSE IF alt THEN 0 ELSE -1

\* sign of (largest eigenvalue - a/b), b > 0
CmpMax(ev, a, b) ==
    LET q == Shifted(ev, a, b)
        z == ZeroRoots(q)
        pos == \A j \in (z + 1)..Len(q) : q[j] > 0
    IN IF pos /\ z = 0 THEN -1 ELSE IF pos THEN 0 ELSE 1

\* mutant of min: the largest root is taken
min_AsMax(ev) == [ev |-> ev, sel |-> "max"]

\* min(lam), max(lam): a real number, the smallest / largest root
min(ev) == [ev |-> ev, sel |-> "min"]

max(ev) == [ev |-> ev, sel |-> "max"]

\* sign of (x - a/b) for such a real number x, b > 0
Cmp(x, a, b) == IF x.sel = "min" THEN CmpMin(x.ev, a, b) ELSE CmpMax(x.ev, a, b)

\* sign of (x**(-1) - a/b) for a real number x > 0, b > 0
CmpInverse(x, a, b) == IF a <= 0 THEN 1 ELSE -Cmp(x, b, a)

\* mutant of norm: the largest absolute entry (ord = inf on the flattened matrix)
norm_MaxAbs(X) ==
    LET e == Flatten(X.num)
        k == CHOOSE i \in 1..Len(e) : \A j \in 1..Len(e) : Abs(e[j]) <= Abs(e[i])
    IN [num |-> e[k] * e[k], den |-> X.den * X.den]

\* numpy.linalg.norm (Frobenius), kept by its square
norm(X) ==
    LET sq == Dot(Flatten(X.num), Flatten(X.num))
        d == X.den * X.den
        g == Gcd(sq, d)
    IN [num |-> sq \div g, den |-> d \div g]

(***************************************************************************)
(* scipy.linalg.sqrtm.  The principal square root of a symmetric positive  *)
(* definite 2 x 2 matrix M = N / e is (N + s I) / sqrt(e (tr N + 2 s)),    *)
(* s = sqrt(det N).  A matrix with such entries is kept as                 *)
(*   [P, Q, rad, w, power]  =  (P + sqrt(rad) Q) / (w.a + w.b sqrt(rad)) ^ (power / 2) *)
(* with integer matrices P, Q and integers rad, w.a, w.b.  The square root *)
(* of a larger matrix has entries of higher algebraic degree; it is kept   *)
(* unevaluated, as the expression that defines it.                         *)
(***************************************************************************)
Evaluated(X) == "P" \in DOMAIN X

\* mutant of sqrtm: the determinant term s I is left out (the entrywise-root slip
\* sqrt(M) ~ N / sqrt(e tr N))
sqrtm_NoDeterminantTerm(M) ==
    IF Len(M.num) = 2
    THEN [P |-> M.num, Q |-> ZeroMatrix(2, 2), rad |-> Det(M.num),
          w |-> [a |-> M.den * (M.num[1][1] + M.num[2][2]), b |-> 0], power |-> 1]
    ELSE [principal_root_of |-> M]

sqrtm(M) ==
    IF Len(M.num) = 2
    THEN [P |-> M.num, Q |-> Identity(2), rad |-> Det(M.num),
          w |-> [a |-> M.den * (M.num[1][1] + M.num[2][2]), b |-> 2 * M.den], power |-> 1]
    ELSE [principal_root_of |-> M]

\* X @ T for an integer matrix T
SurdMulInt(X, T) ==
    IF Evaluated(X)
    THEN [P |-> MatMul(X.P, T), Q |-> MatMul(X.Q, T), rad |-> X.rad, w |-> X.w,
          power |-> X.power]
    ELSE [left |-> X, right |-> T]

\* X.T
SurdT(X) ==
    IF Evaluated(X)
    THEN [P |-> Transpose(X.P), Q |-> Transpose(X.Q), rad |-> X.rad, w |-> X.w,
          power |-> X.power]
    ELSE [transpose_of |-> X]

\* X @ Y for two matrices over the same radicals
SurdMul(X, Y) ==
    IF Evaluated(X) /\ Evaluated(Y)
    THEN [P |-> MatAdd(MatMul(X.P, Y.P), Scale(X.rad, MatMul(X.Q, Y.Q))),
          Q |-> MatAdd(MatMul(X.P, Y.Q), MatMul(X.Q, Y.P)),
          rad |-> X.rad, w |-> X.w, power |-> X.power + Y.power]
    ELSE [left |-> X, right |-> Y]

\* x + y * sqrt(D) = 0 for integers x, y and D >= 0
SurdIsZero(x, y, D) ==
    \/ x = 0 /\ (y = 0 \/ D = 0)
    \/ x # 0 /\ y # 0 /\ Sgn(x) # Sgn(y) /\ x * x = y * y * D

(***************************************************************************)
(* scipy.linalg.null_space and numpy fancy indexing                        *)
(***************************************************************************)
\* the vector supported on the n+1 columns C of T (n x m) whose entries are the
\* signed maximal minors of T[:, C]: it is annihilated by T
Circuit(T, C) ==
    LET cs == SortedSeq(C)
        rws == UpTo(Len(T))
    IN Tup([j \in 1..NumCols(T) |->
          IF j \in C
          THEN LET p == CHOOSE q \in 1..Len(cs) : cs[q] = j
               IN (IF p % 2 = 1 THEN 1 ELSE -1)
                    * Det(Sub(T, rws, Tup([q \in 1..(Len(cs) - 1) |-> cs[Without(Len(cs), p)[q]]])))
          ELSE 0])

\* scipy.linalg.null_space(T)[:, 0], up to a positive factor: null_space returns an
\* orthonormal basis, whose first vector the LAPACK factorisation decides; the model
\* lets it be either orientation of any nonzero circuit vector of T.  The set is empty
\* exactly when the null space is {0} and the basis has no column.
NullSpaceVectors(T) ==
    {v \in {LET cv == Circuit(T, C) IN Tup([j \in 1..NumCols(T) |-> sg * cv[j]]) :
              sg \in {-1, 1},
              C \in {D \in SUBSET (1..NumCols(T)) : Cardinality(D) = Len(T) + 1}} :
        \E j \in 1..NumCols(T) : v[j] # 0}

\* X[:, ix] for a sequence ix of 0-based column indices
TakeColumns(X, ix) == Sub(X, UpTo(Len(X)), Tup([p \in 1..Len(ix) |-> ix[p] + 1]))

\* X[ix, :] for a sequence ix of 0-based row indices
TakeRows(X, ix) == Sub(X, Tup([p \in 1..Len(ix) |-> ix[p] + 1]), UpTo(NumCols(X)))

\* mutant of AssignColumns: the columns of Y are written into the first columns of Z
AssignColumns_Leading(r, c, ix, Y) ==
    Tup([i \in 1..r |-> Tup([j \in 1..c |-> IF j <= Len(ix) THEN Y[i][j] ELSE 0])])

\* Z = np.zeros((r, c)); Z[:, ix] = Y : a repeated index keeps the last column assigned
AssignColumns(r, c, ix, Y) ==
    Tup([i \in 1..r |-> Tup([j \in 1..c |->
        IF \E p \in 1..Len(ix) : ix[p] + 1 = j
        THEN LET last == CHOOSE p \in 1..Len(ix) :
                            /\ ix[p] + 1 = j
                            /\ \A q \in 1..Len(ix) : ix[q] + 1 = j => q <= p
             IN Y[i][last]
        ELSE 0])])

(***************************************************************************)
(* State: the notebook's namespace, the next cell to run, the exception    *)
(***************************************************************************)
VARIABLES pc, err, m, n,
          T_ana, f, Tf, T_syn,
          G, lam_G, lam_pos,
          S, positive, lam,
          A, B, S_inv, lam_inv, A_inv, B_inv,
          T_dual_syn, S_mixed,
          S_can, lam_can, A_can, B_can,
          f_kernel, T_dual2_syn,
          idx, S_small, T_dual3_syn, norms,
          S_inv_sqrt, T_syn_tight, T_ana_tight, S_tight,
          T_ana_dep, S_dep, check_condition,
          order

dimsVars  == <<m, n>>
anaVars   == <<T_ana, f, Tf>>
gramVars  == <<G, lam_G, lam_pos>>
opVars    == <<S, positive, lam>>
boundVars == <<A, S_inv, lam_inv, A_inv, B_inv>>
dualVars  == <<T_dual_syn, S_mixed>>
canVars   == <<S_can, lam_can, A_can, B_can>>
subVars   == <<S_small, T_dual3_syn>>
tightVars == <<S_inv_sqrt, T_syn_tight, T_ana_tight, S_tight>>
depVars   == <<T_ana_dep, S_dep, check_condition>>

vars == <<pc, err, dimsVars, anaVars, T_syn, gramVars, opVars, boundVars, B, dualVars,
          canVars, f_kernel, T_dual2_syn, idx, subVars, norms, tightVars, depVars, order>>

\* a name that no cell has assigned yet
Unbound == << >>

\* the code cells in notebook order.  Cells that only print and the draw c, Tc of the
\* synthesis cell bind no name a later cell reads; they have no action here.
Cells == <<"dimensions", "analysis", "synthesis", "gram", "frame_operator", "frame_bounds",
           "canonical_dual", "canonical_bounds", "null_space", "perturbed_dual",
           "index_selection", "subframe_dual", "norms", "tight_frame", "dependent_frame",
           "redundancy", "end">>

\* order is the sequence in which the cells are executed: Cells when the notebook is
\* run top to bottom
CellNo(c) == CHOOSE k \in 1..Len(order) : order[k] = c

\* cell c has run to its end
Ran(c) == CellNo(pc) > CellNo(c)

NextCell == order[CellNo(pc) + 1]

InitNames ==
    /\ pc = "dimensions"
    /\ err = "none"
    /\ m = 0 /\ n = 0
    /\ T_ana = Unbound /\ f = Unbound /\ Tf = Unbound /\ T_syn = Unbound
    /\ G = Unbound /\ lam_G = Unbound /\ lam_pos = Unbound
    /\ S = Unbound /\ positive = Unbound /\ lam = Unbound
    /\ A = Unbound /\ B = Unbound /\ S_inv = Unbound /\ lam_inv = Unbound
    /\ A_inv = Unbound /\ B_inv = Unbound
    /\ T_dual_syn = Unbound /\ S_mixed = Unbound
    /\ S_can = Unbound /\ lam_can = Unbound /\ A_can = Unbound /\ B_can = Unbound
    /\ f_kernel = Unbound /\ T_dual2_syn = Unbound
    /\ idx = Unbound /\ S_small = Unbound /\ T_dual3_syn = Unbound /\ norms = Unbound
    /\ S_inv_sqrt = Unbound /\ T_syn_tight = Unbound /\ T_ana_tight = Unbound
    /\ S_tight = Unbound
    /\ T_ana_dep = Unbound /\ S_dep = Unbound /\ check_condition = Unbound

Init == InitNames /\ order = Cells

Running(c) == pc = c /\ err = "none"

(***************************************************************************)
(* The cells                                                               *)
(***************************************************************************)
\* m = 6; n = 3  (the notebook's parameters; the model explores small ones)
CellDimensions(mm, nn) ==
    /\ Running("dimensions")
    /\ m' = mm /\ n' = nn
    /\ pc' = NextCell
    /\ UNCHANGED <<order, tightVars,
                   err, anaVars, T_syn, gramVars, opVars, boundVars, B, dualVars, canVars,
                   f_kernel, T_dual2_syn, idx, subVars, norms, depVars>>

\* T_ana = np.random.randn(m, n); f = np.random.randn(n); Tf = T_ana @ f
CellAnalysis(T, fv) ==
    /\ Running("analysis")
    /\ T \in Matrices(m, n, Int) /\ fv \in Vectors(n, Int)
    /\ T_ana' = T /\ f' = fv /\ Tf' = MatVec(T, fv)
    /\ pc' = NextCell
    /\ UNCHANGED <<order, tightVars,
                   err, dimsVars, T_syn, gramVars, opVars, boundVars, B, dualVars, canVars,
                   f_kernel, T_dual2_syn, idx, subVars, norms, depVars>>

\* T_syn = T_ana.T
CellSynthesis ==
    /\ Running("synthesis")
    /\ T_syn' = Transpose(T_ana)
    /\ pc' = NextCell
    /\ UNCHANGED <<order, tightVars,
                   err, dimsVars, anaVars, gramVars, opVars, boundVars, B, dualVars, canVars,
                   f_kernel, T_dual2_syn, idx, subVars, norms, depVars>>

\* mutant of CellGram: only the lower triangle of T_ana @ T_syn is kept
CellGram_LowerTriangle ==
    /\ Running("gram")
    /\ G' = LET P == MatMul(T_ana, T_syn)
            IN Tup([i \in 1..m |-> Tup([j \in 1..m |-> IF j <= i THEN P[i][j] ELSE 0])])
    /\ lam_G' = eigvals(IntMat(MatMul(T_ana, T_syn)))
    /\ lam_pos' = NonZero(lam_G')
    /\ pc' = NextCell
    /\ UNCHANGED <<order, tightVars,
                   err, dimsVars, anaVars, T_syn, opVars, boundVars, B, dualVars, canVars,
                   f_kernel, T_dual2_syn, idx, subVars, norms, depVars>>

\* G = T_ana @ T_syn; lam_G = eigvals(G); lam_pos = [l for l in lam_G if abs(l) > 1e-10]
CellGram ==
    /\ Running("gram")
    /\ G' = MatMul(T_ana, T_syn)
    /\ lam_G' = eigvals(IntMat(G'))
    /\ lam_pos' = NonZero(lam_G')
    /\ pc' = NextCell
    /\ UNCHANGED <<order, tightVars,
                   err, dimsVars, anaVars, T_syn, opVars, boundVars, B, dualVars, canVars,
                   f_kernel, T_dual2_syn, idx, subVars, norms, depVars>>

\* mutant of CellFrameOperator: the identity is subtracted from T_syn @ T_ana
CellFrameOperator_Shifted ==
    /\ Running("frame_operator")
    /\ S' = MatAdd(MatMul(T_syn, T_ana), Scale(-1, Identity(n)))
    /\ positive' = Dot(MatVec(S', f), f)
    /\ lam' = eigvals(IntMat(S'))
    /\ pc' = NextCell
    /\ UNCHANGED <<order, tightVars,
                   err, dimsVars, anaVars, T_syn, gramVars, boundVars, B, dualVars, canVars,
                   f_kernel, T_dual2_syn, idx, subVars, norms, depVars>>

\* S = T_syn @ T_ana; print np.dot(S @ f, f); lam = eigvals(S)
CellFrameOperator ==
    /\ Running("frame_operator")
    /\ S' = MatMul(T_syn, T_ana)
    /\ positive' = Dot(MatVec(S', f), f)
    /\ lam' = eigvals(IntMat(S'))
    /\ pc' = NextCell
    /\ UNCHANGED <<order, tightVars,
                   err, dimsVars, anaVars, T_syn, gramVars, boundVars, B, dualVars, canVars,
                   f_kernel, T_dual2_syn, idx, subVars, norms, depVars>>

\* A = min(lam); B = max(lam); S_inv = inv(S); lam_inv = eigvals(S_inv);
\* A_inv = min(lam_inv); B_inv = max(lam_inv).  inv raises LinAlgError on a singular S,
\* after A and B were assigned.
CellFrameBounds ==
    /\ Running("frame_bounds")
    /\ A' = min(lam)
    /\ B' = max(lam)
    /\ IF Singular(S)
       THEN /\ err' = "LinAlgError"
            /\ UNCHANGED <<pc, S_inv, lam_inv, A_inv, B_inv>>
       ELSE /\ S_inv' = inv(S)
            /\ lam_inv' = eigvals(S_inv')
            /\ A_inv' = min(lam_inv')
            /\ B_inv' = max(lam_inv')
            /\ pc' = NextCell
            /\ UNCHANGED err
    /\ UNCHANGED <<order, tightVars,
                   dimsVars, anaVars, T_syn, gramVars, opVars, dualVars, canVars,
                   f_kernel, T_dual2_syn, idx, subVars, norms, depVars>>

\* T_dual_syn = S_inv @ T_syn; S_mixed = T_dual_syn @ T_ana.
\* Reading S_inv before the frame-bounds cell has bound it raises NameError.
CellCanonicalDual ==
    /\ Running("canonical_dual")
    /\ IF S_inv = Unbound
       THEN /\ err' = "NameError"
            /\ UNCHANGED <<pc, dualVars>>
       ELSE /\ T_dual_syn' = RatMul(S_inv, IntMat(T_syn))
            /\ S_mixed' = RatMul(T_dual_syn', IntMat(T_ana))
            /\ pc' = NextCell
            /\ UNCHANGED err
    /\ UNCHANGED <<order, tightVars,
                   dimsVars, anaVars, T_syn, gramVars, opVars, boundVars, B, canVars,
                   f_kernel, T_dual2_syn, idx, subVars, norms, depVars>>

\* mutant of CellCanonicalBounds: S_can = T_dual_syn.T @ T_dual_syn
CellCanonicalBounds_Transposed ==
    /\ Running("canonical_bounds")
    /\ S_can' = RatMul(RatT(T_dual_syn), T_dual_syn)
    /\ lam_can' = eigvals(S_can')
    /\ A_can' = min(lam_can')
    /\ B_can' = max(lam_can')
    /\ pc' = NextCell
    /\ UNCHANGED <<order, tightVars,
                   err, dimsVars, anaVars, T_syn, gramVars, opVars, boundVars, B, dualVars,
                   f_kernel, T_dual2_syn, idx, subVars, norms, depVars>>

\* S_can = T_dual_syn @ T_dual_syn.T; lam_can = eigvals(S_can); A_can, B_can = min, max
CellCanonicalBounds ==
    /\ Running("canonical_bounds")
    /\ S_can' = RatMul(T_dual_syn, RatT(T_dual_syn))
    /\ lam_can' = eigvals(S_can')
    /\ A_can' = min(lam_can')
    /\ B_can' = max(lam_can')
    /\ pc' = NextCell
    /\ UNCHANGED <<order, tightVars,
                   err, dimsVars, anaVars, T_syn, gramVars, opVars, boundVars, B, dualVars,
                   f_kernel, T_dual2_syn, idx, subVars, norms, depVars>>

\* mutant of CellNullSpace: an empty basis yields the zero vector instead of an IndexError
CellNullSpace_ZeroColumn(k) ==
    /\ Running("null_space")
    /\ IF NullSpaceVectors(T_syn) = {}
       THEN /\ k = Unbound
            /\ B' = [dim |-> 0, first |-> Unbound]
            /\ f_kernel' = <<Tup([j \in 1..m |-> 0])>>
            /\ pc' = NextCell
            /\ UNCHANGED err
       ELSE /\ k \in NullSpaceVectors(T_syn)
            /\ B' = [dim |-> m - matrix_rank(T_syn), first |-> k]
            /\ f_kernel' = <<k>>
            /\ pc' = NextCell
            /\ UNCHANGED err
    /\ UNCHANGED <<order, tightVars,
                   dimsVars, anaVars, T_syn, gramVars, opVars, boundVars, dualVars, canVars,
                   T_dual2_syn, idx, subVars, norms, depVars>>

\* B = null_space(T_syn); f_kernel = B[:,0].reshape(1,m).  B is rebound to the basis
\* (kept by its dimension and its first column k); B[:,0] raises IndexError when the
\* basis has no column.
CellNullSpace(k) ==
    /\ Running("null_space")
    /\ IF NullSpaceVectors(T_syn) = {}
       THEN /\ k = Unbound
            /\ B' = [dim |-> 0, first |-> Unbound]
            /\ err' = "IndexError"
            /\ UNCHANGED <<pc, f_kernel>>
       ELSE /\ k \in NullSpaceVectors(T_syn)
            /\ B' = [dim |-> m - matrix_rank(T_syn), first |-> k]
            /\ f_kernel' = <<k>>
            /\ pc' = NextCell
            /\ UNCHANGED err
    /\ UNCHANGED <<order, tightVars,
                   dimsVars, anaVars, T_syn, gramVars, opVars, boundVars, dualVars, canVars,
                   T_dual2_syn, idx, subVars, norms, depVars>>

\* T_dual2_syn = T_dual_syn + f_kernel  (the 1 x m row is broadcast onto all n rows)
CellPerturbedDual ==
    /\ Running("perturbed_dual")
    /\ T_dual2_syn' = RatAdd(T_dual_syn, IntMat(Tup([i \in 1..n |-> f_kernel[1]])))
    /\ pc' = NextCell
    /\ UNCHANGED <<order, tightVars,
                   err, dimsVars, anaVars, T_syn, gramVars, opVars, boundVars, B, dualVars,
                   canVars, f_kernel, idx, subVars, norms, depVars>>

\* idx = np.random.randint(0, m, 3)
CellIndexSelection(ix) ==
    /\ Running("index_selection")
    /\ ix \in [1..3 -> 0..(m - 1)]
    /\ idx' = ix
    /\ pc' = NextCell
    /\ UNCHANGED <<order, tightVars,
                   err, dimsVars, anaVars, T_syn, gramVars, opVars, boundVars, B, dualVars,
                   canVars, f_kernel, T_dual2_syn, subVars, norms, depVars>>

\* mutant of CellSubframeDual: a singular S_small is not noticed and the dual stays the
\* zero matrix
CellSubframeDual_NoFailure ==
    /\ Running("subframe_dual")
    /\ S_small' = MatMul(TakeColumns(T_syn, idx), TakeRows(T_ana, idx))
    /\ IF Singular(S_small')
       THEN T_dual3_syn' = IntMat(ZeroMatrix(n, m))
       ELSE LET T_dual3_small_syn == RatMul(inv(S_small'), IntMat(TakeColumns(T_syn, idx)))
            IN T_dual3_syn' = [num |-> AssignColumns(n, m, idx, T_dual3_small_syn.num),
                               den |-> T_dual3_small_syn.den]
    /\ pc' = NextCell
    /\ UNCHANGED <<order, tightVars,
                   err, dimsVars, anaVars, T_syn, gramVars, opVars, boundVars, B, dualVars,
                   canVars, f_kernel, T_dual2_syn, idx, norms, depVars>>

\* S_small = T_syn[:,idx] @ T_ana[idx,:]; S_small_inv = inv(S_small);
\* T_dual3_small_syn = S_small_inv @ T_syn[:,idx];
\* T_dual3_syn = np.zeros((n,m)); T_dual3_syn[:,idx] = T_dual3_small_syn
CellSubframeDual ==
    /\ Running("subframe_dual")
    /\ S_small' = MatMul(TakeColumns(T_syn, idx), TakeRows(T_ana, idx))
    /\ IF Singular(S_small')
       THEN /\ err' = "LinAlgError"
            /\ UNCHANGED <<pc, T_dual3_syn>>
       ELSE /\ LET T_dual3_small_syn == RatMul(inv(S_small'), IntMat(TakeColumns(T_syn, idx)))
               IN T_dual3_syn' = [num |-> AssignColumns(n, m, idx, T_dual3_small_syn.num),
                                  den |-> T_dual3_small_syn.den]
            /\ pc' = NextCell
            /\ UNCHANGED err
    /\ UNCHANGED <<order, tightVars,
                   dimsVars, anaVars, T_syn, gramVars, opVars, boundVars, B, dualVars,
                   canVars, f_kernel, T_dual2_syn, idx, norms, depVars>>

\* print norm(T_dual_syn), norm(T_dual2_syn), norm(T_dual3_syn)
CellNorms ==
    /\ Running("norms")
    /\ norms' = [canonical |-> norm(T_dual_syn),
                 non_canonical |-> norm(T_dual2_syn),
                 non_canonical2 |-> norm(T_dual3_syn)]
    /\ pc' = NextCell
    /\ UNCHANGED <<order, tightVars,
                   err, dimsVars, anaVars, T_syn, gramVars, opVars, boundVars, B, dualVars,
                   canVars, f_kernel, T_dual2_syn, idx, subVars, depVars>>

\* mutant of CellTightFrame: the tight frame is built from the canonical dual
\* (S_inv_sqrt @ S @ T_dual_syn, the same matrix), so the cell reads T_dual_syn
CellTightFrame_FromDual ==
    /\ Running("tight_frame")
    /\ IF S_inv = Unbound \/ T_dual_syn = Unbound
       THEN /\ err' = "NameError"
            /\ UNCHANGED <<pc, tightVars>>
       ELSE /\ S_inv_sqrt' = sqrtm(S_inv)
            /\ T_syn_tight' = SurdMulInt(S_inv_sqrt', T_syn)
            /\ T_ana_tight' = SurdT(T_syn_tight')
            /\ S_tight' = SurdMul(T_syn_tight', T_ana_tight')
            /\ pc' = NextCell
            /\ UNCHANGED err
    /\ UNCHANGED <<order, dimsVars, anaVars, T_syn, gramVars, opVars, boundVars, B, dualVars,
                   canVars, f_kernel, T_dual2_syn, idx, subVars, norms, depVars>>

\* S_inv_sqrt = sqrtm(S_inv); T_syn_tight = S_inv_sqrt @ T_syn;
\* T_ana_tight = T_syn_tight.T; S_tight = T_syn_tight @ T_ana_tight.
\* Reading S_inv before the frame-bounds cell has bound it raises NameError.
CellTightFrame ==
    /\ Running("tight_frame")
    /\ IF S_inv = Unbound
       THEN /\ err' = "NameError"
            /\ UNCHANGED <<pc, tightVars>>
       ELSE /\ S_inv_sqrt' = sqrtm(S_inv)
            /\ T_syn_tight' = SurdMulInt(S_inv_sqrt', T_syn)
            /\ T_ana_tight' = SurdT(T_syn_tight')
            /\ S_tight' = SurdMul(T_syn_tight', T_ana_tight')
            /\ pc' = NextCell
            /\ UNCHANGED err
    /\ UNCHANGED <<order, dimsVars, anaVars, T_syn, gramVars, opVars, boundVars, B, dualVars,
                   canVars, f_kernel, T_dual2_syn, idx, subVars, norms, depVars>>

\* T_ana_2 = np.random.randn(n, n);
\* f_add = np.random.randn(1)*T_ana_2[0,:] + np.random.randn(1)*T_ana_2[1,:];
\* T_ana_dep = np.append(T_ana_2, f_add, axis=0)
CellDependentFrame(T_ana_2, a, b) ==
    /\ Running("dependent_frame")
    /\ T_ana_2 \in Matrices(n, n, Int) /\ a \in Int /\ b \in Int
    /\ LET f_add == Tup([j \in 1..n |-> a * T_ana_2[1][j] + b * T_ana_2[2][j]])
       IN T_ana_dep' = Append(T_ana_2, f_add)
    /\ pc' = NextCell
    /\ UNCHANGED <<order, tightVars,
                   err, dimsVars, anaVars, T_syn, gramVars, opVars, boundVars, B, dualVars,
                   canVars, f_kernel, T_dual2_syn, idx, subVars, norms, S_dep, check_condition>>

\* mutant of CellRedundancy: the antidiagonal of T_ana_dep @ T_dual_syn_dep is printed
CellRedundancy_Antidiagonal ==
    /\ Running("redundancy")
    /\ S_dep' = MatMul(Transpose(T_ana_dep), T_ana_dep)
    /\ IF Singular(S_dep')
       THEN /\ err' = "LinAlgError"
            /\ UNCHANGED <<pc, check_condition>>
       ELSE /\ LET T_dual_syn_dep == RatMul(inv(S_dep'), IntMat(Transpose(T_ana_dep)))
                   P == RatMul(IntMat(T_ana_dep), T_dual_syn_dep)
                   k == Len(T_ana_dep)
               IN check_condition' = [num |-> Tup([i \in 1..k |-> P.num[i][k + 1 - i]]),
                                      den |-> P.den]
            /\ pc' = NextCell
            /\ UNCHANGED err
    /\ UNCHANGED <<order, tightVars,
                   dimsVars, anaVars, T_syn, gramVars, opVars, boundVars, B, dualVars,
                   canVars, f_kernel, T_dual2_syn, idx, subVars, norms, T_ana_dep>>

\* mutant of CellRedundancy: the diagonal of T_ana_dep @ T_ana_dep.T is printed, the
\* inverse frame operator is left out
CellRedundancy_NoInverse ==
    /\ Running("redundancy")
    /\ S_dep' = MatMul(Transpose(T_ana_dep), T_ana_dep)
    /\ IF Singular(S_dep')
       THEN /\ err' = "LinAlgError"
            /\ UNCHANGED <<pc, check_condition>>
       ELSE /\ LET P == IntMat(MatMul(T_ana_dep, Transpose(T_ana_dep)))
               IN check_condition' = [num |-> Tup([i \in 1..Len(T_ana_dep) |-> P.num[i][i]]),
                                      den |-> P.den]
            /\ pc' = NextCell
            /\ UNCHANGED err
    /\ UNCHANGED <<order, tightVars,
                   dimsVars, anaVars, T_syn, gramVars, opVars, boundVars, B, dualVars,
                   canVars, f_kernel, T_dual2_syn, idx, subVars, norms, T_ana_dep>>

\* mutant of CellRedundancy: the diagonal of T_dual_syn_dep @ T_ana_dep is printed
CellRedundancy_Swapped ==
    /\ Running("redundancy")
    /\ S_dep' = MatMul(Transpose(T_ana_dep), T_ana_dep)
    /\ IF Singular(S_dep')
       THEN /\ err' = "LinAlgError"
            /\ UNCHANGED <<pc, check_condition>>
       ELSE /\ LET T_dual_syn_dep == RatMul(inv(S_dep'), IntMat(Transpose(T_ana_dep)))
                   P == RatMul(T_dual_syn_dep, IntMat(T_ana_dep))
               IN check_condition' = [num |-> Tup([i \in 1..n |-> P.num[i][i]]),
                                      den |-> P.den]
            /\ pc' = NextCell
            /\ UNCHANGED err
    /\ UNCHANGED <<order, tightVars,
                   dimsVars, anaVars, T_syn, gramVars, opVars, boundVars, B, dualVars,
                   canVars, f_kernel, T_dual2_syn, idx, subVars, norms, T_ana_dep>>

\* S_dep = T_ana_dep.T @ T_ana_dep; S_dep_inv = inv(S_dep);
\* T_dual_syn_dep = S_dep_inv @ T_ana_dep.T; print np.diag(T_ana_dep @ T_dual_syn_dep)
CellRedundancy ==
    /\ Running("redundancy")
    /\ S_dep' = MatMul(Transpose(T_ana_dep), T_ana_dep)
    /\ IF Singular(S_dep')
       THEN /\ err' = "LinAlgError"
            /\ UNCHANGED <<pc, check_condition>>
       ELSE /\ LET T_dual_syn_dep == RatMul(inv(S_dep'), IntMat(Transpose(T_ana_dep)))
                   P == RatMul(IntMat(T_ana_dep), T_dual_syn_dep)
               IN check_condition' = [num |-> Tup([i \in 1..Len(T_ana_dep) |-> P.num[i][i]]),
                                      den |-> P.den]
            /\ pc' = NextCell
            /\ UNCHANGED err
    /\ UNCHANGED <<order, tightVars,
                   dimsVars, anaVars, T_syn, gramVars, opVars, boundVars, B, dualVars,
                   canVars, f_kernel, T_dual2_syn, idx, subVars, norms, T_ana_dep>>

(***************************************************************************)
(* Specifications.  Every specification runs the whole notebook; they      *)
(* differ in the values the random draws range over.                       *)
(***************************************************************************)
Vals == -1..MaxVal

FVals == {0, 1}

\* the signal dimension and the frame sizes of the sampled frames
SampledDims == {<<2, 2>>, <<3, 2>>}

\* the index draw 0, 1, 2 (taken modulo m)
FirstIndices == Tup([p \in 1..3 |-> (p - 1) % m])

\* Spec: every frame with entries in Vals
Next ==
    \/ \E d \in SampledDims : CellDimensions(d[1], d[2])
    \/ Running("analysis") /\ \E T \in Matrices(m, n, Vals), fv \in Vectors(n, FVals) : CellAnalysis(T, fv)
    \/ CellSynthesis
    \/ CellGram
    \/ CellFrameOperator
    \/ CellFrameBounds
    \/ CellCanonicalDual
    \/ CellCanonicalBounds
    \/ Running("null_space") /\ \E k \in NullSpaceVectors(T_syn) \cup {Unbound} : CellNullSpace(k)
    \/ CellPerturbedDual
    \/ Running("index_selection") /\ CellIndexSelection(FirstIndices)
    \/ CellSubframeDual
    \/ CellNorms
    \/ CellTightFrame
    \/ Running("dependent_frame") /\ CellDependentFrame(Identity(n), 1, 1)
    \/ CellRedundancy

Spec == Init /\ [][Next]_vars

\* four frame vectors in R^3: n as in the notebook, m the smallest redundant size
SmallDims == <<4, 3>>

\* the frame vectors SpecSub draws the rows of T_ana from
RowChoices == {<<1, 0, 0>>, <<0, 1, 0>>, <<1, -1, 0>>, <<1, 1, 2>>}

\* the frame SpecDep runs the first cells on
FixedFrame == <<<<1, 0, 0>>, <<0, 1, 0>>, <<0, 0, 1>>, <<1, 1, 1>>>>

FixedSignal == <<1, 0, 1>>

\* the coefficients of f_add and the entries of T_ana_2 in SpecDep
Coefs == {-1, 0, 1, 2}

DepVals == {0, 1}

\* SpecSub: frames of four vectors of RowChoices in R^3, every index draw
NextSub ==
    \/ CellDimensions(SmallDims[1], SmallDims[2])
    \/ Running("analysis") /\ \E r \in [1..m -> RowChoices] :
            CellAnalysis(Tup(r), FixedSignal)
    \/ CellSynthesis
    \/ CellGram
    \/ CellFrameOperator
    \/ CellFrameBounds
    \/ CellCanonicalDual
    \/ CellCanonicalBounds
    \/ Running("null_space") /\ \E k \in NullSpaceVectors(T_syn) \cup {Unbound} : CellNullSpace(k)
    \/ CellPerturbedDual
    \/ Running("index_selection") /\ \E ix \in [1..3 -> 0..(m - 1)] : CellIndexSelection(Tup(ix))
    \/ CellSubframeDual
    \/ CellNorms
    \/ CellTightFrame
    \/ Running("dependent_frame") /\ CellDependentFrame(Identity(n), 1, 1)
    \/ CellRedundancy

SpecSub == Init /\ [][NextSub]_vars

\* SpecDep: one frame, every dependent frame with entries in DepVals and
\* coefficients in Coefs
NextDep ==
    \/ CellDimensions(SmallDims[1], SmallDims[2])
    \/ CellAnalysis(FixedFrame, FixedSignal)
    \/ CellSynthesis
    \/ CellGram
    \/ CellFrameOperator
    \/ CellFrameBounds
    \/ CellCanonicalDual
    \/ CellCanonicalBounds
    \/ Running("null_space") /\ \E k \in NullSpaceVectors(T_syn) \cup {Unbound} : CellNullSpace(k)
    \/ CellPerturbedDual
    \/ Running("index_selection") /\ CellIndexSelection(FirstIndices)
    \/ CellSubframeDual
    \/ CellNorms
    \/ CellTightFrame
    \/ Running("dependent_frame") /\ \E T2 \in Matrices(n, n, DepVals), a, b \in Coefs :
            CellDependentFrame(Tup([i \in 1..n |-> Tup(T2[i])]), a, b)
    \/ CellRedundancy

SpecDep == Init /\ [][NextDep]_vars

\* the cells that derive the operators, and the blocks of cells behind them: the
\* frame-bounds step and the dual-frame, tight-frame and redundancy computations
OperatorCells == SubSeq(Cells, 1, 5)

BoundsCells == SubSeq(Cells, 6, 6)

DualCells == SubSeq(Cells, 7, 13)

TightCells == SubSeq(Cells, 14, 14)

RedundancyCells == SubSeq(Cells, 15, 16)

\* the interleavings of two sequences of cells
RECURSIVE Merges(_, _)
Merges(s, t) ==
    IF s = << >> THEN {t}
    ELSE IF t = << >> THEN {s}
    ELSE {<<Head(s)>> \o x : x \in Merges(Tail(s), t)}
           \cup {<<Head(t)>> \o x : x \in Merges(s, Tail(t))}

\* every execution order that derives the operators first and keeps the cells of each
\* block in notebook order
Orders ==
    {OperatorCells \o x \o <<"end">> :
        x \in UNION {Merges(BoundsCells, y) :
                y \in UNION {Merges(DualCells, z) : z \in Merges(TightCells, RedundancyCells)}}}

\* the frame SpecOrder runs on
OrderFrame == <<<<1, 0>>, <<1, 1>>, <<-1, 1>>>>

OrderSignal == <<1, 1>>

InitOrder == InitNames /\ order \in Orders

\* SpecOrder: one frame, the cells behind the operator derivation in every order
NextOrder ==
    \/ CellDimensions(Len(OrderFrame), Len(OrderSignal))
    \/ CellAnalysis(OrderFrame, OrderSignal)
    \/ CellSynthesis
    \/ CellGram
    \/ CellFrameOperator
    \/ CellFrameBounds
    \/ CellCanonicalDual
    \/ CellCanonicalBounds
    \/ Running("null_space") /\ \E k \in NullSpaceVectors(T_syn) \cup {Unbound} : CellNullSpace(k)
    \/ CellPerturbedDual
    \/ Running("index_selection") /\ CellIndexSelection(FirstIndices)
    \/ CellSubframeDual
    \/ CellNorms
    \/ CellTightFrame
    \/ Running("dependent_frame") /\ CellDependentFrame(Identity(n), 1, 1)
    \/ CellRedundancy

SpecOrder == InitOrder /\ [][NextOrder]_vars

(***************************************************************************)
(* Properties                                                              *)
(***************************************************************************)
\* the frame condition: the analysis operator has rank n
ValidFrame == matrix_rank(T_ana) = n

IsIdentity(X) == RatEq(X, IntMat(Identity(Len(X.num))))

IsZeroVector(v) == \A j \in 1..Len(v) : v[j] = 0

\* x < y and x = y for nonnegative rationals [num, den]
Less(x, y) ==
    LET g == Gcd(x.den, y.den)
    IN x.num * (y.den \div g) < y.num * (x.den \div g)

Same(x, y) ==
    LET g == Gcd(x.den, y.den)
    IN x.num * (y.den \div g) = y.num * (x.den \div g)

\* C1: for every valid frame the canonical dual T_dual_syn = inv(S) @ T_syn satisfies
\* T_dual_syn @ T_ana = Identity_n (the value the cell keeps in S_mixed).
C1_CanonicalDuality ==
    (Ran("canonical_dual") /\ ValidFrame) =>
        /\ IsIdentity(S_mixed)
        /\ IsIdentity(RatMul(T_dual_syn, IntMat(T_ana)))

C1_Witness == Ran("canonical_dual") /\ ValidFrame /\ m > n /\ T_dual_syn.den > 1

\* C2: for every valid frame with m > n and every delta with T_syn @ delta = 0, the
\* operator T_dual_syn + delta (delta broadcast onto all n rows) is a dual:
\* T_dual2_syn @ T_ana = Identity_n.
C2_PerturbedDuality ==
    (Ran("perturbed_dual") /\ ValidFrame /\ m > n /\ IsZeroVector(MatVec(T_syn, f_kernel[1]))) =>
        IsIdentity(RatMul(T_dual2_syn, IntMat(T_ana)))

C2_Witness ==
    /\ Ran("perturbed_dual") /\ ValidFrame /\ m > n
    /\ IsZeroVector(MatVec(T_syn, f_kernel[1]))
    /\ ~IsZeroVector(f_kernel[1])
    /\ ~RatEq(T_dual2_syn, T_dual_syn)

\* C3: the Frobenius norm of the canonical dual is at most that of the perturbed dual
\* T_dual_syn + delta, delta in the null space of T_syn, and equal only when delta = 0.
C3_MinimalNorm ==
    (Ran("norms") /\ IsZeroVector(MatVec(T_syn, f_kernel[1]))) =>
        /\ ~Less(norms.non_canonical, norms.canonical)
        /\ Same(norms.non_canonical, norms.canonical) => IsZeroVector(f_kernel[1])

C3_Witness ==
    /\ Ran("norms") /\ IsZeroVector(MatVec(T_syn, f_kernel[1])) /\ ~IsZeroVector(f_kernel[1])
    /\ Less(norms.canonical, norms.non_canonical)

\* the rows idx of T_ana are n linearly independent vectors
IndependentRows == Len(idx) = n /\ matrix_rank(TakeRows(T_ana, idx)) = n

\* C4: for every frame and every idx of n linearly independent rows the subframe-dual
\* cell runs without an error, every column of T_dual3_syn outside idx is zero, and
\* T_dual3_syn @ T_ana = Identity_n.
C4_SubframeDual ==
    /\ (pc = "subframe_dual" /\ IndependentRows) => err = "none"
    /\ (Ran("subframe_dual") /\ IndependentRows) =>
          /\ \A j \in 1..m : (\A p \in 1..Len(idx) : idx[p] + 1 # j) =>
                                IsZeroVector(Column(T_dual3_syn.num, j))
          /\ IsIdentity(RatMul(T_dual3_syn, IntMat(T_ana)))

C4_Witness ==
    /\ Ran("subframe_dual") /\ IndependentRows /\ m > n
    /\ idx[1] > idx[2]
    /\ T_dual3_syn.den > 1
    /\ ~RatEq(T_dual3_syn, T_dual_syn)

\* d_i = 1 for the i-th entry of the printed diagonal
IsOne(i) == check_condition.num[i] = check_condition.den

\* the frame T_ana_dep without its i-th vector still spans R^n
SpansWithout(i) ==
    matrix_rank(Sub(T_ana_dep, Without(Len(T_ana_dep), i), UpTo(n))) = n

\* C5: for the valid frame T_ana_dep and every index i, d_i = <f_i, inv(S) f_i> is 1
\* exactly when the frame without f_i no longer spans R^n.
C5_RedundancyRule ==
    Ran("redundancy") => \A i \in 1..Len(T_ana_dep) : IsOne(i) <=> ~SpansWithout(i)

C5_Witness ==
    /\ Ran("redundancy")
    /\ \E i, j \in 1..Len(T_ana_dep) :
          /\ IsOne(i) /\ ~SpansWithout(i)
          /\ ~IsOne(j) /\ SpansWithout(j) /\ check_condition.num[j] # 0
    /\ check_condition.den > 1

\* the last vector of T_ana_dep is a * (first vector) + b * (second vector) with
\* nonzero coefficients a, b
NonzeroCombination ==
    \E a, b \in Coefs \ {0} :
        \A j \in 1..n : T_ana_dep[n + 1][j] = a * T_ana_dep[1][j] + b * T_ana_dep[2][j]

\* C6 as stated: the 4th index is essential and the first three are removable.
C6_FourthEssential ==
    (Ran("redundancy") /\ NonzeroCombination) =>
        /\ IsOne(4)
        /\ \A i \in 1..3 : ~IsOne(i)

\* C6: for three linearly independent vectors of R^3 followed by a combination of the
\* first two with nonzero coefficients, the third index is the essential one (d_3 = 1)
\* and the first, second and fourth indices are removable (d_i # 1).
C6_ThirdEssential ==
    (Ran("redundancy") /\ NonzeroCombination) =>
        /\ IsOne(3)
        /\ \A i \in {1, 2, 4} : ~IsOne(i)

C6_Witness ==
    /\ Ran("redundancy") /\ NonzeroCombination
    /\ IsOne(3) /\ ~IsOne(4) /\ check_condition.num[4] # 0
    /\ T_ana_dep[1] # T_ana_dep[2] /\ check_condition.den > 1

\* C7: the Gram matrix G = T_ana @ T_syn (m x m) and the frame operator
\* S = T_syn @ T_ana (n x n) are symmetric, G[i,j] = <f_i, f_j>, and T_syn is the
\* transpose of T_ana.
C7_Symmetric ==
    Ran("frame_operator") =>
        /\ T_syn = Transpose(T_ana)
        /\ Len(G) = m /\ NumCols(G) = m
        /\ Len(S) = n /\ NumCols(S) = n
        /\ \A i, j \in 1..m : G[i][j] = G[j][i] /\ G[i][j] = Dot(T_ana[i], T_ana[j])
        /\ \A a, b \in 1..n : S[a][b] = S[b][a]

C7_Witness ==
    /\ Ran("frame_operator") /\ m > n
    /\ \E i, j \in 1..m : i # j /\ G[i][j] # 0
    /\ \E a, b \in 1..n : a # b /\ S[a][b] # 0

\* the vectors the positivity of S is tried on
TestVectors == Vectors(n, (-(MaxVal + 1))..(MaxVal + 1))

\* C8: for every valid frame S is invertible and <S f, f> > 0 for every nonzero f (the
\* sampled f included); a frame of rank below n has <S f, f> = 0 for some nonzero f.
C8_PositiveDefinite ==
    Ran("frame_operator") =>
        /\ ValidFrame =>
              /\ ~Singular(S)
              /\ \A v \in TestVectors : ~IsZeroVector(v) => Dot(MatVec(S, v), v) > 0
              /\ ~IsZeroVector(f) => positive > 0
        /\ ~ValidFrame =>
              \E v \in TestVectors : ~IsZeroVector(v) /\ Dot(MatVec(S, v), v) = 0

C8_Witness ==
    /\ Ran("frame_operator") /\ ValidFrame /\ m > n
    /\ ~IsZeroVector(f) /\ positive > 0
    /\ \E a, b \in 1..n : a # b /\ S[a][b] # 0

C8_WitnessDeficient == Ran("frame_operator") /\ ~ValidFrame /\ ~IsZeroVector(Flatten(T_ana))

\* C9: for every valid frame the nonzero eigenvalues of G are, as a multiset, the
\* eigenvalues of S, and G has exactly m - n zero eigenvalues:
\* charpoly_G(x) = x^(m-n) * charpoly_S(x).
C9_GramSpectrum ==
    (Ran("frame_operator") /\ ValidFrame) =>
        /\ lam_pos = lam
        /\ ZeroRoots(lam_G.poly) = m - n
        /\ lam_G.poly = [k \in 1..(m - n) |-> 0] \o lam.poly

C9_Witness == Ran("frame_operator") /\ ValidFrame /\ m > n /\ lam.poly[2] # 0 /\ lam_pos # lam_G

\* the rationals a/b that eigenvalues are compared with
Grid == (-GridMax..GridMax) \X (1..GridMax)

\* the eigenvalues of ew are the reciprocals of the eigenvalues of ev, as multisets:
\* with D = ev.den * ew.den, the roots of ew.poly are D / r for the roots r of ev.poly
Reciprocals(ev, ew) ==
    LET p == ev.poly
        q == ew.poly
        dg == Degree(p)
        D == ev.den * ew.den
    IN /\ Len(q) = Len(p)
       /\ p[1] # 0
       /\ \A j \in 0..dg : q[j + 1] * p[1] = p[dg - j + 1] * Pow(D, dg - j)

\* C10: with (A, B) = (min, max eigenvalue of S), the smallest and largest eigenvalues
\* of inv(S) are 1/B and 1/A (the eigenvalues of inv(S) are the reciprocals of those of
\* S, and A_inv, B_inv compare with every rational of the grid as 1/B, 1/A do).
C10_InverseBounds ==
    (pc = "canonical_dual" /\ err = "none") =>
        /\ Reciprocals(lam, lam_inv)
        /\ \A t \in Grid :
            /\ Cmp(A_inv, t[1], t[2]) = CmpInverse(B, t[1], t[2])
            /\ Cmp(B_inv, t[1], t[2]) = CmpInverse(A, t[1], t[2])

C10_Witness ==
    /\ pc = "canonical_dual" /\ err = "none" /\ ValidFrame /\ m > n
    /\ \E t \in Grid : Cmp(A, t[1], t[2]) = -1 /\ Cmp(B, t[1], t[2]) = 1
    /\ \E t \in Grid : t[1] > 0 /\ Cmp(A_inv, t[1], t[2]) = 1
    /\ \E t \in Grid : Cmp(B_inv, t[1], t[2]) = -1

\* X = Identity for a matrix X = (P + sqrt(rad) Q) / (w.a + w.b sqrt(rad))
SurdIsIdentity(X, k) ==
    /\ Evaluated(X) /\ X.power = 2
    /\ Len(X.P) = k /\ NumCols(X.P) = k
    /\ \A i, j \in 1..k :
          LET d == IF i = j THEN 1 ELSE 0
          IN SurdIsZero(X.P[i][j] - d * X.w.a, X.Q[i][j] - d * X.w.b, X.rad)

IsSquare(x) == \E r \in 0..x : r * r = x

\* C11: for every valid frame the canonical tight frame T_syn_tight = sqrtm(inv(S)) @ T_syn
\* has frame operator S_tight = T_syn_tight @ T_syn_tight.T equal to Identity_n.
C11_TightFrame ==
    (Ran("tight_frame") /\ ValidFrame) => SurdIsIdentity(S_tight, n)

C11_Witness ==
    /\ Ran("tight_frame") /\ ValidFrame /\ m > n
    /\ ~IsSquare(S_inv_sqrt.rad)
    /\ S_inv_sqrt.P[1][2] # 0
    /\ S_tight.Q[1][1] # 0

\* C12 as stated: a collection whose analysis operator has rank below n fails with a
\* rank-deficiency error when it is built, and nothing downstream (Gram matrix, frame
\* operator, bounds, duals, tight frame, redundancy diagonal) is computed from it.
C12_RankDeficiencyError ==
    /\ (T_ana # Unbound /\ ~ValidFrame) =>
          /\ err = "RankDeficiencyError"
          /\ G = Unbound /\ S = Unbound /\ A = Unbound /\ B = Unbound
          /\ T_dual_syn = Unbound /\ S_tight = Unbound
    /\ (T_ana_dep # Unbound /\ matrix_rank(T_ana_dep) < n) =>
          /\ err = "RankDeficiencyError"
          /\ S_dep = Unbound /\ check_condition = Unbound

C14_NoNullSpace ==
    [][(pc = "null_space" /\ m = n) =>
          /\ err = "none"
          /\ err' = "IndexError" /\ pc' = pc
          /\ f_kernel' = Unbound
          /\ T_dual2_syn' = Unbound]_vars

C14_Witness ==
    /\ pc = "null_space" /\ err = "IndexError" /\ m = n /\ ValidFrame
    /\ B = [dim |-> 0, first |-> Unbound]
    /\ f_kernel = Unbound /\ T_dual2_syn = Unbound

\* C15 as stated: every idx the subframe-dual cell operates on (S_small has been
\* computed from it) consists of exactly n pairwise distinct row indices in 0..m-1.
C15_DistinctIndices ==
    S_small # Unbound =>
        /\ Len(idx) = n
        /\ \A p \in 1..Len(idx) : idx[p] \in 0..(m - 1)
        /\ \A p, q \in 1..Len(idx) : p # q => idx[p] # idx[q]

\* C16 as stated: once their cells have run, T_ana, T_syn, G, S, A, B, S_inv and
\* T_dual_syn are never assigned again: no step of a later cell changes any of them.
C16_NeverReassigned ==
    [][/\ Ran("analysis") => T_ana' = T_ana
       /\ Ran("synthesis") => T_syn' = T_syn
       /\ Ran("gram") => G' = G
       /\ Ran("frame_operator") => S' = S
       /\ Ran("frame_bounds") => (A' = A /\ B' = B /\ S_inv' = S_inv)
       /\ Ran("canonical_dual") => T_dual_syn' = T_dual_syn]_vars

\* the results of the dual-frame, tight-frame and redundancy computations are those of
\* the top-to-bottom run on the same frame and the same draws
TopToBottomResults ==
    /\ T_dual_syn = RatMul(inv(S), IntMat(T_syn))
    /\ S_mixed = RatMul(T_dual_syn, IntMat(T_ana))
    /\ T_dual2_syn = RatAdd(T_dual_syn, IntMat(Tup([i \in 1..n |-> f_kernel[1]])))
    /\ norms.canonical = norm(T_dual_syn) /\ norms.non_canonical = norm(T_dual2_syn)
    /\ S_inv_sqrt = sqrtm(inv(S))
    /\ T_syn_tight = SurdMulInt(S_inv_sqrt, T_syn)
    /\ S_tight = SurdMul(T_syn_tight, SurdT(T_syn_tight))
    /\ SurdIsIdentity(S_tight, n)
    /\ Len(check_condition.num) = n + 1
    /\ \A i \in 1..(n + 1) :
          LET D == RatMul(IntMat(<<T_ana_dep[i]>>),
                          RatMul(inv(S_dep), IntMat(Transpose(<<T_ana_dep[i]>>))))
          IN check_condition.num[i] * D.den = D.num[1][1] * check_condition.den

\* position of a cell in the execution order
Pos(c) == CHOOSE k \in 1..Len(order) : order[k] = c

InUnitInterval(i) ==
    /\ check_condition.num[i] * check_condition.den >= 0
    /\ Abs(check_condition.num[i]) <= Abs(check_condition.den)

AfterCanonicalBounds == pc = "null_space" /\ err = "none"

\* C19: for every valid frame the frame operator of the canonical dual,
\* S_can = T_dual_syn @ T_dual_syn.T, is inv(S): S_can = S_inv and S_can @ S = Identity_n;
\* its eigenvalues are the reciprocals of those of S, and its bounds (A_can, B_can)
\* compare with every rational of the grid as (1/B, 1/A) do.
C19_DualFrameOperator ==
    (AfterCanonicalBounds /\ ValidFrame) =>
        /\ RatEq(S_can, S_inv)
        /\ IsIdentity(RatMul(S_can, IntMat(S)))
        /\ Reciprocals(lam, lam_can)
        /\ \A t \in Grid :
            /\ Cmp(A_can, t[1], t[2]) = CmpInverse(B, t[1], t[2])
            /\ Cmp(B_can, t[1], t[2]) = CmpInverse(A, t[1], t[2])

C19_Witness ==
    /\ AfterCanonicalBounds /\ ValidFrame /\ m > n
    /\ T_dual_syn.den > 1
    /\ S_can.num[1][2] # 0
    /\ S_can.num[1][1] # S_can.num[2][2]
    /\ ~RatEq(S_can, RatMul(T_dual_syn, IntMat(T_ana)))
    /\ \E t \in Grid : Cmp(A_can, t[1], t[2]) = -1 /\ Cmp(B_can, t[1], t[2]) = 1

====
